---- MODULE Spec2Model ----
(***************************************************************************)
(* The SPI datalink of the slice greybus driver                            *)
(* (nuttx/drivers/greybus/slice/datalink-spi.c): the outbound fifo filled  *)
(* by queue_data, the exchange scheduler setup_exchange triggered by       *)
(* queue_data, wake_isr and txn_finished_cb, the reassembly of received    *)
(* packets in txn_finished_cb, and the detach cleanup in attach_cb.        *)
(*                                                                         *)
(* Contexts.  queue_data and attach_cb run at task level and are modelled  *)
(* step by step; wake_isr and txn_finished_cb run at interrupt level:      *)
(* while txn_finished_cb is under way no task-level step is taken, but     *)
(* wake_isr may fire between its statements, since nothing in              *)
(* txn_finished_cb masks interrupts.  Code between irqsave and irqrestore  *)
(* is one step.                                                            *)
(***************************************************************************)
EXTENDS Integers, Sequences, FiniteSets, TLC

(***************************************************************************)
(* Program constants                                                       *)
(***************************************************************************)
SLICE_SPI_MSG_PAYLOAD_SZ == 32

HDR_BIT_VALID == 128

HDR_BIT_MORE == 64

NULL == 0

(***************************************************************************)
(* Bounds of the model                                                     *)
(***************************************************************************)
\* SLICE_DL_PAYLOAD_MAX_SZ counted in packets
MaxFrags == 3

\* packets the heap can supply before zalloc returns NULL, while the driver
\* runs with all its triggers
MaxAllocs == 2

\* valid packets the base sends while the driver runs with all its triggers
MaxRxValid == 1

\* datalink.h is not part of the sources at hand: a whole number of packets
SLICE_DL_PAYLOAD_MAX_SZ == MaxFrags * SLICE_SPI_MSG_PAYLOAD_SZ

(***************************************************************************)
(* Helpers                                                                 *)
(***************************************************************************)
MIN(a, b) == IF a < b THEN a ELSE b

\* A size_t is 32 bits wide.  It is held as its bit pattern read as a two's
\* complement number: a negative x stands for 2^32 + x, so that a subtraction
\* that wraps below zero is the plain subtraction.  u_gt is the unsigned >.
u_gt(a, b) == IF (a < 0) = (b < 0) THEN a > b ELSE a < 0

\* hdr_bits & bit, for a single-bit mask
HasBit(h, bit) == (h \div bit) % 2 = 1

\* hdr_bits |= bit
OrBit(h, bit) == IF HasBit(h, bit) THEN h ELSE h + bit

Zeros(n) == [i \in 1..n |-> 0]

\* the caller's buffer: len bytes, none of them zero
Msg(len) == [i \in 1..len |-> ((i - 1) % 255) + 1]

\* memcpy(&dst[off], src, n), off counted from 0; bytes past the end of dst
\* are not part of the model of dst
memcpy(dst, off, src, n) ==
  [i \in 1..Len(dst) |-> IF i > off /\ i <= off + n THEN src[i - off] ELSE dst[i]]

\* memset(dst, 0, n)
memset0(dst, n) == [i \in 1..Len(dst) |-> IF i <= n THEN 0 ELSE dst[i]]

\* struct slice_spi_msg as zalloc returns it
ZeroMsg == [hdr_bits |-> 0, data |-> Zeros(SLICE_SPI_MSG_PAYLOAD_SZ)]

RemoveId(q, id) == SelectSeq(q, LAMBDA x : x # id)

InSeq(q, id) == \E i \in 1..Len(q) : q[i] = id

\* the node after id in q, NULL (the list head) when id is the last one
NextOf(q, id) ==
  LET i == CHOOSE k \in 1..Len(q) : q[k] = id
  IN IF i < Len(q) THEN q[i + 1] ELSE NULL

(***************************************************************************)
(* State                                                                   *)
(***************************************************************************)
VARIABLES
  rdy_n,            \* GPIO_SLICE_RDY_N: 0 = ready asserted
  wake_n,           \* GPIO_SLICE_WAKE_N: 0 = wake asserted by the base
  host_int,         \* last value given to slice_host_int_set
  spi,              \* exchanges issued by SPI_EXCHANGE and not yet finished
  rx_buf,           \* priv->rx_buf
  tx_fifo,          \* priv->tx_fifo: packets (by heap id), first to send first
  tx_buf,           \* priv->tx_buf
  rcvd_payload,     \* priv->rcvd_payload
  rcvd_payload_idx, \* priv->rcvd_payload_idx
  heap,             \* every packet zalloc has returned, by id
  freed,            \* ids given to free
  dfree,            \* some id was given to free twice
  qd_pc,            \* queue_data: "idle" or "loop"
  qd_len,           \* queue_data: len
  qd_remaining,     \* queue_data: remaining
  qd_ret,           \* value returned by the last queue_data
  cb_pc,            \* txn_finished_cb: "idle", "free", "null", "rx"
  at_pc,            \* attach_cb: "idle", "init", "body"
  at_iter,          \* attach_cb: iter
  at_next,          \* attach_cb: iter_next
  attached,         \* what the attach layer last reported
  \* history
  enq,              \* ids in the order list_add queued them
  sent,             \* ids in the order SPI_EXCHANGE was given them
  recvd,            \* messages given to cb->recv, in order
  qd_ids,           \* ids queued by the queue_data call under way or last made
  nrx,              \* valid packets the base has sent so far
  detached,         \* attach_cb(arg, false) has been called
  last_setup,       \* what setup_exchange did, if the last step called it
  cb_late,          \* txn_finished_cb under way is for a cancelled exchange
  wr_end,           \* largest offset + size any memcpy into rcvd_payload had
  in_frames         \* valid packets received of the incoming message so far

mem == <<heap, freed, dfree>>
qdv == <<qd_pc, qd_len, qd_remaining, qd_ret, qd_ids>>
atv == <<at_pc, at_iter, at_next, attached, detached>>
rxv == <<rcvd_payload, rcvd_payload_idx, recvd, wr_end, in_frames>>
sev == <<rdy_n, tx_fifo, tx_buf, spi, sent, last_setup, host_int>>
vars == <<rdy_n, wake_n, host_int, spi, rx_buf, tx_fifo, tx_buf, rcvd_payload,
          rcvd_payload_idx, heap, freed, dfree, qd_pc, qd_len, qd_remaining,
          qd_ret, cb_pc, at_pc, at_iter, at_next, attached, enq, sent, recvd,
          qd_ids, nrx, detached, last_setup, cb_late, wr_end, in_frames>>

\* slice_dl_init, with the static slice_spi_dl zero-initialised; the wake line
\* is the base's
InitDriver ==
  /\ rdy_n = 1
  /\ host_int = FALSE
  /\ spi = <<>>
  /\ rx_buf = ZeroMsg
  /\ tx_fifo = <<>>
  /\ tx_buf = NULL
  /\ rcvd_payload = Zeros(SLICE_DL_PAYLOAD_MAX_SZ)
  /\ rcvd_payload_idx = 0
  /\ heap = <<>>
  /\ freed = {}
  /\ dfree = FALSE
  /\ qd_pc = "idle"
  /\ qd_len = 0
  /\ qd_remaining = 0
  /\ qd_ret = "none"
  /\ cb_pc = "idle"
  /\ at_pc = "idle"
  /\ at_iter = NULL
  /\ at_next = NULL
  /\ attached = TRUE
  /\ enq = <<>>
  /\ sent = <<>>
  /\ recvd = <<>>
  /\ qd_ids = <<>>
  /\ nrx = 0
  /\ detached = FALSE
  /\ last_setup = "none"
  /\ cb_late = FALSE
  /\ wr_end = 0
  /\ in_frames = 0

\* the base asserts wake after the driver has attached wake_isr
Init == wake_n = 1 /\ InitDriver

\* the base may hold wake asserted already when gpio_irqattach is called: no
\* falling edge comes then
InitAnyWake == wake_n \in {0, 1} /\ InitDriver

(***************************************************************************)
(* setup_exchange                                                          *)
(***************************************************************************)
\* the test of the ready line left out
already_setup_never == FALSE

\* the ready line read as asserted whatever it is
already_setup_always == TRUE

\* !gpio_get_value(GPIO_SLICE_RDY_N): already set up to tranceive a packet
already_setup == rdy_n = 0

\* the test of the wake line left out
wake_ignored(wake) == FALSE

\* gpio_get_value(GPIO_SLICE_WAKE_N): the base has not asserted wake
wake_not_asserted(wake) == wake # 0

list_is_empty(q) == q = <<>>

\* the node taken from the wrong end of the fifo
fifo_first_newest(q) == q[Len(q)]

\* head = priv->tx_fifo.next: the node taken off the fifo
fifo_first(q) == Head(q)

\* list_del(priv->tx_fifo.next)
fifo_rest(q) == Tail(q)

\* nuttx/list.h: list_add links the node in before the list head, at the tail
list_add(q, n) == Append(q, n)

\* the argument of slice_host_int_set
host_int_value(tb) == tb # NULL

\* SPI_EXCHANGE(spi, tx, rx_buf, sizeof(struct slice_spi_msg)); tx = NULL
\* stands for tx_dummy_buf
SPI_EXCHANGE(tx) == Append(spi, [tx |-> tx, cancelled |-> FALSE])

\* The whole of setup_exchange, interrupts masked throughout; wake is the
\* level of GPIO_SLICE_WAKE_N the call reads.
setup_exchange(wake) ==
  /\ IF already_setup
       THEN /\ last_setup' = "already"
            /\ UNCHANGED <<rdy_n, tx_fifo, tx_buf, spi, sent>>
       ELSE IF wake_not_asserted(wake)
         THEN /\ last_setup' = "nowake"
              /\ UNCHANGED <<rdy_n, tx_fifo, tx_buf, spi, sent>>
         ELSE IF list_is_empty(tx_fifo)
           THEN /\ spi' = SPI_EXCHANGE(NULL)
                /\ rdy_n' = 0
                /\ last_setup' = "rxonly"
                /\ UNCHANGED <<tx_fifo, tx_buf, sent>>
           ELSE /\ tx_buf' = fifo_first(tx_fifo)
                /\ tx_fifo' = fifo_rest(tx_fifo)
                /\ spi' = SPI_EXCHANGE(fifo_first(tx_fifo))
                /\ sent' = Append(sent, fifo_first(tx_fifo))
                /\ rdy_n' = 0
                /\ last_setup' = "rxtx"
  /\ host_int' = host_int_value(tx_buf')

(***************************************************************************)
(* wake_isr and the wake line                                              *)
(***************************************************************************)
\* The base pulls wake low; the falling edge runs wake_isr.
wake_isr ==
  /\ wake_n = 1
  /\ wake_n' = 0
  /\ setup_exchange(0)
  /\ UNCHANGED <<rx_buf, mem, qdv, atv, rxv, cb_pc, enq, nrx, cb_late>>

\* The base releases wake.
WakeRelease ==
  /\ wake_n = 0
  /\ wake_n' = 1
  /\ last_setup' = "none"
  /\ UNCHANGED <<rdy_n, host_int, spi, rx_buf, tx_fifo, tx_buf, mem, qdv, atv,
                 rxv, cb_pc, enq, sent, nrx, cb_late>>

(***************************************************************************)
(* queue_data                                                              *)
(***************************************************************************)
\* task-level code runs only when no interrupt handler is under way
TaskLevel == cb_pc = "idle"

\* the limit taken one too high
too_big_late(len) == len > SLICE_DL_PAYLOAD_MAX_SZ + 1

\* len > SLICE_DL_PAYLOAD_MAX_SZ
too_big(len) == len > SLICE_DL_PAYLOAD_MAX_SZ

\* the loop entered whatever remaining is
loop_test_always(remaining) == TRUE

\* while (remaining > 0)
loop_test(remaining) == u_gt(remaining, 0)

\* (remaining > SLICE_SPI_MSG_PAYLOAD_SZ) ? HDR_BIT_MORE : 0
more_bit(remaining) ==
  IF u_gt(remaining, SLICE_SPI_MSG_PAYLOAD_SZ) THEN HDR_BIT_MORE ELSE 0

\* m->hdr_bits after the two |= on a zalloc'ed packet
new_hdr_bits(remaining) ==
  LET v == OrBit(0, HDR_BIT_VALID)
  IN IF more_bit(remaining) = 0 THEN v ELSE OrBit(v, more_bit(remaining))

\* memcpy(m->data, buf, MIN(len, SLICE_SPI_MSG_PAYLOAD_SZ)) on a zalloc'ed packet
new_data(len) ==
  memcpy(Zeros(SLICE_SPI_MSG_PAYLOAD_SZ), 0, Msg(len),
         MIN(len, SLICE_SPI_MSG_PAYLOAD_SZ))

\* remaining -= MIN(len, SLICE_SPI_MSG_PAYLOAD_SZ), remaining a size_t
next_remaining(remaining, len) ==
  remaining - MIN(len, SLICE_SPI_MSG_PAYLOAD_SZ)

\* what a freed packet holds is not defined
Poison == [hdr_bits |-> -1, data |-> <<>>]

\* free(p), p a packet in hp
Free(hp, p) ==
  /\ heap' = [hp EXCEPT ![p] = Poison]
  /\ freed' = freed \cup {p}
  /\ dfree' = (dfree \/ p \in freed)

\* queue_data is called with a buffer of len bytes: lines 235-241
QdCall(len) ==
  /\ TaskLevel
  /\ qd_pc = "idle"
  /\ qd_len' = len
  /\ qd_ids' = <<>>
  /\ IF too_big(len)
       THEN /\ qd_ret' = "E2BIG"
            /\ UNCHANGED <<qd_pc, qd_remaining>>
       ELSE /\ qd_ret' = "none"
            /\ qd_pc' = "loop"
            /\ qd_remaining' = len
  /\ last_setup' = "none"
  /\ UNCHANGED <<rdy_n, wake_n, host_int, spi, rx_buf, tx_fifo, tx_buf, mem,
                 atv, rxv, cb_pc, enq, sent, nrx, cb_late>>

\* one turn of the while loop with both allocations succeeding, on a heap
\* that can supply supply packets in all: lines 243-266
QdIter(supply) ==
  /\ TaskLevel
  /\ qd_pc = "loop"
  /\ loop_test(qd_remaining)
  /\ Len(heap) < supply
  /\ LET id == Len(heap) + 1
         m == [hdr_bits |-> new_hdr_bits(qd_remaining), data |-> new_data(qd_len)]
     IN /\ heap' = Append(heap, m)
        /\ tx_fifo' = list_add(tx_fifo, id)
        /\ enq' = Append(enq, id)
        /\ qd_ids' = Append(qd_ids, id)
  /\ qd_remaining' = next_remaining(qd_remaining, qd_len)
  /\ last_setup' = "none"
  /\ UNCHANGED <<rdy_n, wake_n, host_int, spi, rx_buf, tx_buf, freed, dfree,
                 qd_pc, qd_len, qd_ret, atv, rxv, cb_pc, sent, nrx, cb_late>>

\* zalloc returns NULL: lines 245-247
QdNoMem ==
  /\ TaskLevel
  /\ qd_pc = "loop"
  /\ loop_test(qd_remaining)
  /\ qd_ret' = "ENOMEM"
  /\ qd_pc' = "idle"
  /\ qd_remaining' = 0
  /\ last_setup' = "none"
  /\ UNCHANGED <<rdy_n, wake_n, host_int, spi, rx_buf, tx_fifo, tx_buf, mem,
                 qd_len, qd_ids, atv, rxv, cb_pc, enq, sent, nrx, cb_late>>

\* zalloc succeeds and malloc of the node returns NULL: lines 245-254
QdNoNode(supply) ==
  /\ TaskLevel
  /\ qd_pc = "loop"
  /\ loop_test(qd_remaining)
  /\ Len(heap) < supply
  /\ Free(Append(heap, ZeroMsg), Len(heap) + 1)
  /\ qd_ret' = "ENOMEM"
  /\ qd_pc' = "idle"
  /\ qd_remaining' = 0
  /\ last_setup' = "none"
  /\ UNCHANGED <<rdy_n, wake_n, host_int, spi, rx_buf, tx_fifo, tx_buf,
                 qd_len, qd_ids, atv, rxv, cb_pc, enq, sent, nrx, cb_late>>

\* the loop ends, setup_exchange, return 0: lines 243, 269-270
QdDone ==
  /\ TaskLevel
  /\ qd_pc = "loop"
  /\ ~loop_test(qd_remaining)
  /\ setup_exchange(wake_n)
  /\ qd_ret' = "OK"
  /\ qd_pc' = "idle"
  /\ UNCHANGED <<wake_n, rx_buf, mem, qd_len, qd_remaining, qd_ids,
                 atv, rxv, cb_pc, enq, nrx, cb_late>>

(***************************************************************************)
(* txn_finished_cb                                                         *)
(***************************************************************************)
MAX(a, b) == IF a > b THEN a ELSE b

\* the valid bit not looked at
rx_valid_any(m) == TRUE

\* m->hdr_bits & HDR_BIT_VALID
rx_valid(m) == HasBit(m.hdr_bits, HDR_BIT_VALID)

\* m->hdr_bits & HDR_BIT_MORE
rx_more(m) == HasBit(m.hdr_bits, HDR_BIT_MORE)

\* the test written with > for >=
too_many_late(idx) == idx > SLICE_DL_PAYLOAD_MAX_SZ

\* priv->rcvd_payload_idx >= SLICE_DL_PAYLOAD_MAX_SZ: too many packets received
too_many(idx) == idx >= SLICE_DL_PAYLOAD_MAX_SZ

\* the packet's place in the message the base is sending: a message ends with
\* the valid packet that has more clear
RxKind(m) ==
  IF ~rx_valid(m) THEN "dummy"
  ELSE LET over == (in_frames + 1) * SLICE_SPI_MSG_PAYLOAD_SZ > SLICE_DL_PAYLOAD_MAX_SZ
       IN IF rx_more(m) THEN (IF over THEN "over_more" ELSE "more")
          ELSE (IF over THEN "over_end" ELSE "end")

\* lines 191-215: what txn_finished_cb does with the packet m in rx_buf
rx_process(m) ==
  /\ in_frames' = IF ~rx_valid(m) THEN in_frames
                  ELSE IF rx_more(m) THEN in_frames + 1 ELSE 0
  /\ IF ~rx_valid(m)
       THEN UNCHANGED <<rcvd_payload, rcvd_payload_idx, recvd, wr_end>>
       ELSE IF too_many(rcvd_payload_idx)
         THEN UNCHANGED <<rcvd_payload, rcvd_payload_idx, recvd, wr_end>>
         ELSE LET copied == memcpy(rcvd_payload, rcvd_payload_idx, m.data,
                                   SLICE_SPI_MSG_PAYLOAD_SZ)
                  n == rcvd_payload_idx + SLICE_SPI_MSG_PAYLOAD_SZ
              IN /\ wr_end' = MAX(wr_end, n)
                 /\ IF rx_more(m)
                      THEN /\ rcvd_payload' = copied
                           /\ rcvd_payload_idx' = n
                           /\ UNCHANGED recvd
                      ELSE /\ recvd' = Append(recvd,
                                  [data |-> SubSeq(copied, 1, MIN(n, Len(copied))),
                                   len |-> n,
                                   nframes |-> in_frames + 1])
                           /\ rcvd_payload' = memset0(copied, SLICE_SPI_MSG_PAYLOAD_SZ)
                           /\ rcvd_payload_idx' = 0

\* The exchange at the head of spi ends with packet m received; the SPI
\* driver calls txn_finished_cb, which deasserts ready: lines 175-183
SpiComplete(m) ==
  /\ cb_pc = "idle"
  /\ Len(spi) > 0
  /\ nrx' = IF rx_valid(m) THEN nrx + 1 ELSE nrx
  /\ rx_buf' = m
  /\ spi' = Tail(spi)
  /\ cb_late' = Head(spi).cancelled
  /\ rdy_n' = 1
  /\ cb_pc' = "free"
  /\ last_setup' = "none"
  /\ UNCHANGED <<wake_n, host_int, tx_fifo, tx_buf, mem, qdv, atv, rxv, enq,
                 sent>>

\* if (priv->tx_buf) free(priv->tx_buf): lines 185-187
CbFree ==
  /\ cb_pc = "free"
  /\ IF tx_buf # NULL
       THEN /\ Free(heap, tx_buf)
            /\ cb_pc' = "null"
       ELSE /\ cb_pc' = "rx"
            /\ UNCHANGED mem
  /\ last_setup' = "none"
  /\ UNCHANGED <<rdy_n, wake_n, host_int, spi, rx_buf, tx_fifo, tx_buf, qdv,
                 atv, rxv, enq, sent, nrx, cb_late>>

\* priv->tx_buf = NULL: line 188
CbNull ==
  /\ cb_pc = "null"
  /\ tx_buf' = NULL
  /\ cb_pc' = "rx"
  /\ last_setup' = "none"
  /\ UNCHANGED <<rdy_n, wake_n, host_int, spi, rx_buf, tx_fifo, mem, qdv, atv,
                 rxv, enq, sent, nrx, cb_late>>

\* the received packet, then setup_exchange: lines 191-219
CbRx ==
  /\ cb_pc = "rx"
  /\ rx_process(rx_buf)
  /\ setup_exchange(wake_n)
  /\ cb_pc' = "idle"
  /\ cb_late' = FALSE
  /\ UNCHANGED <<wake_n, rx_buf, mem, qdv, atv, enq, nrx>>

(***************************************************************************)
(* attach_cb                                                               *)
(***************************************************************************)
\* SPI_SLAVE_DMA_CANCEL: the SPI driver is asked to drop the exchange; the
\* request may come too late for an exchange the base is already clocking
SPI_SLAVE_DMA_CANCEL ==
  [i \in 1..Len(spi) |-> [spi[i] EXCEPT !.cancelled = TRUE]]

\* attach_cb(arg, false) up to the cancel: lines 153-158
Detach ==
  /\ TaskLevel
  /\ at_pc = "idle"
  /\ attached
  /\ detached' = TRUE
  /\ attached' = FALSE
  /\ spi' = SPI_SLAVE_DMA_CANCEL
  /\ at_pc' = "init"
  /\ last_setup' = "none"
  /\ UNCHANGED <<rdy_n, wake_n, host_int, rx_buf, tx_fifo, tx_buf, mem, qdv,
                 at_iter, at_next, rxv, cb_pc, enq, sent, nrx, cb_late>>

\* list_foreach_safe: iter = head->next, iter_next = iter->next: line 161
AtInit ==
  /\ TaskLevel
  /\ at_pc = "init"
  /\ IF list_is_empty(tx_fifo)
       THEN /\ at_pc' = "idle"
            /\ UNCHANGED <<at_iter, at_next>>
       ELSE /\ at_pc' = "body"
            /\ at_iter' = Head(tx_fifo)
            /\ at_next' = NextOf(tx_fifo, Head(tx_fifo))
  /\ last_setup' = "none"
  /\ UNCHANGED <<rdy_n, wake_n, host_int, spi, rx_buf, tx_fifo, tx_buf, mem,
                 qdv, attached, detached, rxv, cb_pc, enq, sent, nrx, cb_late>>

\* what iter->next reads for node n once node gone has been unlinked from q;
\* a node setup_exchange has freed holds whatever the allocator left there
IterNext(q, n) ==
  IF n = NULL THEN {NULL}
  ELSE IF InSeq(q, n) THEN {NextOf(q, n)}
  ELSE {NULL} \cup {q[i] : i \in 1..Len(q)}

\* one turn of the loop, then iter = iter_next, iter_next = iter->next:
\* lines 161-167
AtBody ==
  /\ TaskLevel
  /\ at_pc = "body"
  /\ tx_fifo' = RemoveId(tx_fifo, at_iter)
  /\ Free(heap, at_iter)
  /\ IF at_next = NULL
       THEN /\ at_pc' = "idle"
            /\ at_iter' = NULL
            /\ at_next' = NULL
       ELSE /\ at_pc' = "body"
            /\ at_iter' = at_next
            /\ at_next' \in IterNext(RemoveId(tx_fifo, at_iter), at_next)
  /\ last_setup' = "none"
  /\ UNCHANGED <<rdy_n, wake_n, host_int, spi, rx_buf, tx_buf, qdv, attached,
                 detached, rxv, cb_pc, enq, sent, nrx, cb_late>>

\* attach_cb(arg, true): nothing to do
Attach ==
  /\ TaskLevel
  /\ at_pc = "idle"
  /\ ~attached
  /\ attached' = TRUE
  /\ last_setup' = "none"
  /\ UNCHANGED <<rdy_n, wake_n, host_int, spi, rx_buf, tx_fifo, tx_buf, mem,
                 qdv, at_pc, at_iter, at_next, detached, rxv, cb_pc, enq,
                 sent, nrx, cb_late>>

\* a cancelled exchange is dropped by the SPI driver with no callback
SpiCancelled ==
  /\ cb_pc = "idle"
  /\ Len(spi) > 0
  /\ Head(spi).cancelled
  /\ spi' = Tail(spi)
  /\ last_setup' = "none"
  /\ UNCHANGED <<rdy_n, wake_n, host_int, rx_buf, tx_fifo, tx_buf, mem, qdv,
                 atv, rxv, cb_pc, enq, sent, nrx, cb_late>>

(***************************************************************************)
(* The driver with its three triggers, the base and the attach layer       *)
(***************************************************************************)
\* lengths the network layer sends: one packet and two packets
SendLens == {6, 2 * SLICE_SPI_MSG_PAYLOAD_SZ}

RxPacket(h, k) == [hdr_bits |-> h, data |-> [i \in 1..SLICE_SPI_MSG_PAYLOAD_SZ |-> k]]

\* packets the base sends: a dummy, or a message of one packet
RxPackets == {ZeroMsg, RxPacket(HDR_BIT_VALID, 1)}

\* the base ends an exchange
BaseClocks == \E m \in RxPackets : (rx_valid(m) => nrx < MaxRxValid) /\ SpiComplete(m)

Next ==
  \/ \E len \in SendLens : QdCall(len)
  \/ QdIter(MaxAllocs)
  \/ QdNoMem
  \/ QdDone
  \/ wake_isr
  \/ WakeRelease
  \/ BaseClocks
  \/ SpiCancelled
  \/ CbFree
  \/ CbNull
  \/ CbRx
  \/ Detach
  \/ AtInit
  \/ AtBody
  \/ Attach

Spec == Init /\ [][Next]_vars

(***************************************************************************)
(* One message sent on an unused heap; the base asserts wake at some point *)
(* and keeps it asserted, and echoes each packet it is sent back to the    *)
(* driver                                                                  *)
(***************************************************************************)
\* one packet more than the largest message needs
SendSupply == MaxFrags + 1

\* the message is sent on the unused heap; a call with a length that is too
\* large can be made at any time
QdCallAny ==
  \E len \in 0..(SLICE_DL_PAYLOAD_MAX_SZ + 1) :
    (heap = <<>> \/ len > SLICE_DL_PAYLOAD_MAX_SZ) /\ QdCall(len)

\* packets a base can send: dummies (one with the more bit set), and valid
\* packets, last of a message or not, of two contents
RxPacketsAny ==
  {ZeroMsg, RxPacket(HDR_BIT_MORE, 1)}
    \cup {RxPacket(HDR_BIT_VALID, k) : k \in 1..2}
    \cup {RxPacket(HDR_BIT_VALID + HDR_BIT_MORE, k) : k \in 1..2}

\* what the base can have received in exchange x, which it sends back: the
\* packet handed to SPI_EXCHANGE, or anything at all if that packet was freed
\* while the hardware was reading it
Echo(x) ==
  IF x.tx = NULL THEN {ZeroMsg}
  ELSE IF x.tx \in freed THEN RxPacketsAny
  ELSE {heap[x.tx]}

BaseEchoes == Len(spi) > 0 /\ \E m \in Echo(Head(spi)) : SpiComplete(m)

NextSend ==
  \/ QdCallAny
  \/ QdIter(SendSupply)
  \/ QdNoMem
  \/ QdNoNode(SendSupply)
  \/ QdDone
  \/ wake_isr
  \/ BaseEchoes
  \/ CbFree
  \/ CbNull
  \/ CbRx

SpecSend == Init /\ [][NextSend]_vars

(***************************************************************************)
(* The receive path alone: the base sends, the driver has nothing to send  *)
(***************************************************************************)
\* enough valid packets for a message that overflows rcvd_payload, its last
\* packet, and a message after it
RecvValid == MaxFrags + 3

BaseSends == \E m \in RxPacketsAny : (rx_valid(m) => nrx < RecvValid) /\ SpiComplete(m)

NextRecv ==
  \/ wake_isr
  \/ BaseSends
  \/ CbFree
  \/ CbRx

SpecRecv == Init /\ [][NextRecv]_vars

(***************************************************************************)
(* Both directions: the network layer sends one message of one packet while *)
(* the base sends packets of its own, dummies among them                   *)
(***************************************************************************)
\* valid packets the base sends: one message that overflows rcvd_payload
DuplexValid == MaxFrags + 1

\* the one message is sent on the unused heap
QdCallOne == heap = <<>> /\ QdCall(6)

BaseSendsSome ==
  \E m \in RxPacketsAny : (rx_valid(m) => nrx < DuplexValid) /\ SpiComplete(m)

NextDuplex ==
  \/ QdCallOne
  \/ QdIter(1)
  \/ QdDone
  \/ wake_isr
  \/ BaseSendsSome
  \/ CbFree
  \/ CbNull
  \/ CbRx

SpecDuplex == Init /\ [][NextDuplex]_vars

(***************************************************************************)
(* The link stays attached: every exchange issued ends, every callback     *)
(* runs to its end, and the base asserts wake again whenever it has        *)
(* released it                                                             *)
(***************************************************************************)
\* the base ends an exchange in which it sent a dummy packet
BaseDummy == SpiComplete(ZeroMsg)

NextDrain ==
  \/ \E len \in SendLens : QdCall(len)
  \/ QdIter(MaxAllocs)
  \/ QdNoMem
  \/ QdDone
  \/ wake_isr
  \/ WakeRelease
  \/ BaseDummy
  \/ CbFree
  \/ CbNull
  \/ CbRx

\* the hardware ends the exchanges it is given and the interrupt handlers run
\* to their end; a base that has released wake asserts it again
DrainFairness ==
  /\ WF_vars(BaseDummy)
  /\ WF_vars(CbFree)
  /\ WF_vars(CbNull)
  /\ WF_vars(CbRx)
  /\ WF_vars(wake_isr)

SpecDrain == Init /\ [][NextDrain]_vars /\ DrainFairness

(***************************************************************************)
(* The base holds wake asserted from before wake_isr is attached, or never *)
(* asserts it: setup_exchange is called by queue_data and txn_finished_cb  *)
(* only                                                                    *)
(***************************************************************************)
\* lengths the network layer sends: nothing, and one packet
ShortLens == {0, 6}

QdCallShort == \E len \in ShortLens : QdCall(len)

\* the base ends an exchange in which it sent a valid packet
BaseValid ==
  \E m \in {x \in RxPacketsAny : rx_valid(x)} : nrx < DuplexValid /\ SpiComplete(m)

NextZero ==
  \/ QdCallShort
  \/ QdIter(MaxAllocs)
  \/ QdDone
  \/ WakeRelease
  \/ BaseValid
  \/ CbFree
  \/ CbNull
  \/ CbRx

SpecZero == InitAnyWake /\ [][NextZero]_vars

(***************************************************************************)
(* Properties                                                              *)
(***************************************************************************)
IsPrefix(p, q) == Len(p) <= Len(q) /\ \A i \in 1..Len(p) : p[i] = q[i]

Range(q) == {q[i] : i \in 1..Len(q)}

\* C1: whatever the interleaving of queue_data, wake_isr, txn_finished_cb and
\* attach_cb, at most one exchange issued by SPI_EXCHANGE is unfinished: a
\* setup_exchange that runs while one is unfinished issues no second one.
C1_OneExchange == Len(spi) <= 1

\* setup_exchange has just run with wake asserted and packets queued while an
\* exchange was unfinished, and returned at the ready test
C1_Witness ==
  /\ last_setup = "already"
  /\ Len(spi) = 1
  /\ wake_n = 0
  /\ tx_fifo # <<>>

\* C2: as long as there has been no detach, the packets handed to
\* SPI_EXCHANGE, in the order they were handed, are the first of the packets
\* list_add queued, in the order they were queued.
C2_Fifo == ~detached => IsPrefix(sent, enq)

\* two packets at least have been handed to SPI_EXCHANGE, with no detach
C2_Witness == ~detached /\ Len(sent) >= 2

\* a step of attach_cb that returns from it
AtReturns == at_pc # "idle" /\ at_pc' = "idle"

\* a step of attach_cb that discards the packet of node iter
AtDiscards == at_pc = "body" /\ (at_iter' # at_iter \/ at_pc' # at_pc)

\* a step of txn_finished_cb
CbStep == cb_pc # "idle" /\ cb_pc' # cb_pc

\* C9: when attach_cb(arg, false) returns the fifo is empty, and no packet it
\* discards is one the hardware has been given and has yet to transmit.
C9_DetachEmpties ==
  [][/\ AtReturns => tx_fifo' = <<>>
     /\ AtDiscards => \A i \in 1..Len(spi) : spi[i].tx # at_iter]_vars

\* C10: a txn_finished_cb for an exchange that attach_cb cancelled gives no
\* message to cb->recv, leaves rcvd_payload and its index alone and issues no
\* exchange.
C10_LateCallbackIdle ==
  [][(cb_late /\ CbStep) =>
       /\ recvd' = recvd
       /\ rcvd_payload' = rcvd_payload
       /\ rcvd_payload_idx' = rcvd_payload_idx
       /\ spi' = spi]_vars

\* ceil(len / SLICE_SPI_MSG_PAYLOAD_SZ)
Packets(len) == (len + SLICE_SPI_MSG_PAYLOAD_SZ - 1) \div SLICE_SPI_MSG_PAYLOAD_SZ

\* the length of the queue_data call under way or last made is one of a message
SendLen == 0 < qd_len /\ qd_len <= SLICE_DL_PAYLOAD_MAX_SZ

Returned(r) == qd_pc = "idle" /\ qd_ret = r

\* C3: a queue_data of 0 < len <= SLICE_DL_PAYLOAD_MAX_SZ bytes queues
\* ceil(len / SLICE_SPI_MSG_PAYLOAD_SZ) packets and no more, each with the
\* valid bit, the last one alone without the more bit.
C3_PacketCount ==
  SendLen =>
    /\ Len(qd_ids) <= Packets(qd_len)
    /\ Returned("OK") => Len(qd_ids) = Packets(qd_len)
    /\ \A k \in 1..Len(qd_ids) :
         qd_ids[k] \notin freed =>
           /\ HasBit(heap[qd_ids[k]].hdr_bits, HDR_BIT_VALID)
           /\ HasBit(heap[qd_ids[k]].hdr_bits, HDR_BIT_MORE) <=> (k < Packets(qd_len))

\* every packet of the message has been sent, echoed and received
AllEchoed ==
  /\ Returned("OK")
  /\ Len(sent) = Len(qd_ids)
  /\ tx_buf = NULL
  /\ cb_pc = "idle"

\* C4: the packets queue_data makes of a message of 0 < len <=
\* SLICE_DL_PAYLOAD_MAX_SZ bytes, received in order by txn_finished_cb with
\* rcvd_payload empty, give one call of cb->recv, with the message padded
\* with zeros to whole packets: its first len bytes are the message.
C4_RoundTrip ==
  SendLen =>
    /\ Len(recvd) <= 1
    /\ AllEchoed => Len(recvd) = 1
    /\ \A i \in 1..Len(recvd) :
         /\ recvd[i].len = Packets(qd_len) * SLICE_SPI_MSG_PAYLOAD_SZ
         /\ Len(recvd[i].data) = recvd[i].len
         /\ \A j \in 1..recvd[i].len :
              recvd[i].data[j] = IF j <= qd_len THEN Msg(qd_len)[j] ELSE 0

\* C5: a queue_data with len > SLICE_DL_PAYLOAD_MAX_SZ returns -E2BIG at once
\* and leaves the fifo, tx_buf, the ready line, the host interrupt line and
\* the exchanges as they are.
C5_TooLarge ==
  [][(qd_len' # qd_len /\ qd_len' > SLICE_DL_PAYLOAD_MAX_SZ) =>
       /\ qd_ret' = "E2BIG"
       /\ qd_pc' = "idle"
       /\ UNCHANGED <<tx_fifo, tx_buf, rdy_n, host_int, spi, heap, enq, sent>>]_vars

\* -E2BIG has been returned with a packet queued and an exchange unfinished
C5_Witness ==
  /\ Returned("E2BIG")
  /\ qd_len > SLICE_DL_PAYLOAD_MAX_SZ
  /\ tx_fifo # <<>>
  /\ Len(spi) = 1

\* C6: when queue_data returns -ENOMEM none of the packets it made of the
\* message is in the fifo or has been handed to SPI_EXCHANGE.
C6_NoPartialEnqueue ==
  Returned("ENOMEM") =>
    \A k \in 1..Len(qd_ids) :
      qd_ids[k] \notin Range(tx_fifo) /\ qd_ids[k] \notin Range(sent)

C8_ResetAfterOverflow ==
  [][(cb_pc = "rx" /\ cb_pc' = "idle" /\ RxKind(rx_buf) = "over_end")
       => rcvd_payload_idx' = 0]_vars

\* every exchange the SPI driver still holds has been cancelled
NoneOutstanding == \A i \in 1..Len(spi) : spi[i].cancelled

\* C11: when attach_cb(arg, false) returns and the exchange that was
\* unfinished has been cancelled with no txn_finished_cb for it, no exchange
\* is outstanding, the ready line is deasserted and tx_buf is NULL, so that a
\* later wake_isr or queue_data can issue an exchange.
C11_DetachIdle ==
  [][(AtReturns /\ NoneOutstanding) => (rdy_n' = 1 /\ tx_buf' = NULL)]_vars

\* C12: whenever setup_exchange has just run, the host interrupt line is
\* asserted if and only if the fifo holds a packet.
C12_HostIntIffQueued ==
  last_setup # "none" => (host_int <=> tx_fifo # <<>>)

\* C13: a packet SPI_EXCHANGE was given to transmit is not freed, and stays
\* the packet tx_buf points to, until txn_finished_cb is called for the
\* exchange.
C13_InFlightKept ==
  \A i \in 1..Len(spi) :
    spi[i].tx # NULL => (spi[i].tx \notin freed /\ tx_buf = spi[i].tx)

\* attach_cb has read iter and iter_next off the fifo and has yet to unlink
\* iter
AtMidDrain == at_pc = "body"

\* txn_finished_cb has freed tx_buf and has yet to clear it
CbMidRelease == cb_pc = "null"

\* a step that is none of attach_cb
NotAtStep == UNCHANGED <<at_pc, at_iter, at_next>>

\* a step that is none of txn_finished_cb
NotCbStep == cb_pc' = cb_pc

\* C14: the fifo and tx_buf are changed inside critical sections only: while
\* attach_cb is in the middle of its drain no other context changes the fifo,
\* and while txn_finished_cb is in the middle of releasing tx_buf no other
\* context changes tx_buf.
C14_CriticalSections ==
  [][/\ (AtMidDrain /\ NotAtStep) => tx_fifo' = tx_fifo
     /\ (CbMidRelease /\ NotCbStep) => tx_buf' = tx_buf]_vars

\* a step in which setup_exchange ran
SetupRan == last_setup' # "none"

\* a step in which SPI_EXCHANGE was called
ExchangeIssued == Len(spi') > Len(spi)

\* C15: setup_exchange issues an exchange only if the ready line is not
\* asserted and the wake line is; when either test fails it issues none and
\* leaves the fifo, tx_buf and the ready line as they are.
C15_Guards ==
  [][SetupRan =>
       /\ (rdy_n = 0 \/ wake_n' = 1) => UNCHANGED <<spi, tx_fifo, tx_buf, rdy_n>>
       /\ ExchangeIssued => (rdy_n = 1 /\ wake_n' = 0)]_vars

\* setup_exchange has just run with a packet queued and ready not asserted,
\* and has issued no exchange because wake is not asserted
C15_Witness ==
  /\ last_setup = "nowake"
  /\ tx_fifo # <<>>
  /\ rdy_n = 1
  /\ wake_n = 1
  /\ spi = <<>>

\* queue_data has queued some of the packets of its message and not yet all
MidEnqueue == qd_pc = "loop" /\ qd_ids # <<>> /\ loop_test(qd_remaining)

\* C16: no exchange is issued while queue_data has queued only some of the
\* packets of its message: setup_exchange never finds the fifo holding a
\* strict prefix of them.
C16_AtomicEnqueue == [][ExchangeIssued => ~MidEnqueue]_vars

\* the bytes the k-th packet (k from 1) of a message of len bytes should hold
Fragment(len, k) ==
  [j \in 1..SLICE_SPI_MSG_PAYLOAD_SZ |->
     LET p == (k - 1) * SLICE_SPI_MSG_PAYLOAD_SZ + j
     IN IF p <= len THEN Msg(len)[p] ELSE 0]

\* C17: the k-th packet queue_data makes of a message of len <=
\* SLICE_DL_PAYLOAD_MAX_SZ bytes holds the k-th 32 bytes of the message,
\* padded with zeros when fewer are left.
C17_FragmentBytes ==
  SendLen =>
    \A k \in 1..Len(qd_ids) :
      (k <= Packets(qd_len) /\ qd_ids[k] \notin freed) =>
        heap[qd_ids[k]].data = Fragment(qd_len, k)

\* a packet without the valid bit
IsDummy(m) == ~HasBit(m.hdr_bits, HDR_BIT_VALID)

\* a step of, or during, the txn_finished_cb for a dummy packet
InDummyCb == (cb_pc # "idle" \/ cb_pc' # "idle") /\ IsDummy(rx_buf')

Issued == spi'[Len(spi')]

\* C19: when setup_exchange issues an exchange it takes the first packet off
\* a fifo that holds one and makes it tx_buf, and otherwise sends the dummy
\* packet with the fifo left empty and tx_buf NULL; either way the ready line
\* is asserted afterwards.
C19_StartExchange ==
  [][ExchangeIssued =>
       /\ Len(spi') = Len(spi) + 1
       /\ rdy_n' = 0
       /\ IF tx_fifo # <<>>
            THEN /\ tx_fifo' = Tail(tx_fifo)
                 /\ tx_buf' = Head(tx_fifo)
                 /\ Issued.tx = Head(tx_fifo)
            ELSE /\ tx_fifo' = <<>>
                 /\ tx_buf' = NULL
                 /\ Issued.tx = NULL]_vars

\* the step of txn_finished_cb that deals with the packet in rx_buf
RxStep == cb_pc = "rx" /\ cb_pc' = "idle"

\* the bytes put together so far with those of the packet in rx_buf after them
Accumulated == SubSeq(rcvd_payload, 1, rcvd_payload_idx) \o rx_buf.data

\* C20: a valid packet with more set, the message not overflowing, is put
\* after the bytes put together so far; a valid packet without more that ends
\* a message that did not overflow gives cb->recv, once, the bytes of the
\* message's packets in the order they came, and leaves the index at zero.
C20_DeliverOnce ==
  [][/\ (RxStep /\ RxKind(rx_buf) = "more") =>
          /\ rcvd_payload_idx' = rcvd_payload_idx + SLICE_SPI_MSG_PAYLOAD_SZ
          /\ SubSeq(rcvd_payload', 1, rcvd_payload_idx') = Accumulated
          /\ recvd' = recvd
     /\ (RxStep /\ RxKind(rx_buf) = "end") =>
          /\ recvd' = Append(recvd, [data |-> Accumulated,
                                     len |-> Len(Accumulated),
                                     nframes |-> in_frames + 1])
          /\ Len(Accumulated) = (in_frames + 1) * SLICE_SPI_MSG_PAYLOAD_SZ
          /\ rcvd_payload_idx' = 0]_vars

\* C21: with the link attached, every exchange ending and the base asserting
\* wake again after it released it, every packet in the fifo is in the end
\* handed to SPI_EXCHANGE and the fifo becomes empty, txn_finished_cb calling
\* setup_exchange itself while wake is asserted.
C21_Drains ==
  /\ \A id \in 1..MaxAllocs : InSeq(tx_fifo, id) ~> InSeq(sent, id)
  /\ (tx_fifo # <<>>) ~> (tx_fifo = <<>>)

\* setup_exchange has just issued the exchange for the last packet the heap
\* can supply, with wake asserted, and the fifo is empty
C21_Witness ==
  /\ last_setup = "rxtx"
  /\ cb_pc = "idle"
  /\ qd_pc = "idle"
  /\ wake_n = 0
  /\ Len(sent) = MaxAllocs
  /\ tx_fifo = <<>>

\* the bytes of rcvd_payload in the b-th block of 32 (b from 1)
Block(b) ==
  SubSeq(rcvd_payload, (b - 1) * SLICE_SPI_MSG_PAYLOAD_SZ + 1,
         b * SLICE_SPI_MSG_PAYLOAD_SZ)

\* the data of the packets the base sends with the valid bit
ValidData == {m.data : m \in {x \in RxPacketsAny : rx_valid(x)}}

\* C22: rcvd_payload_idx is between 0 and SLICE_DL_PAYLOAD_MAX_SZ, and the
\* bytes below it are those of the valid packets of the one message that is
\* coming in: one block for each of its packets received so far, as far as
\* the buffer goes.
C22_CursorInvariant ==
  /\ 0 <= rcvd_payload_idx
  /\ rcvd_payload_idx <= SLICE_DL_PAYLOAD_MAX_SZ
  /\ rcvd_payload_idx = MIN(in_frames, MaxFrags) * SLICE_SPI_MSG_PAYLOAD_SZ
  /\ \A b \in 1..(rcvd_payload_idx \div SLICE_SPI_MSG_PAYLOAD_SZ) :
       Block(b) \in ValidData

\* C23: in a queue_data of 0 <= len <= SLICE_DL_PAYLOAD_MAX_SZ bytes,
\* remaining goes down from len to zero and never wraps below zero.
C23_NoWrap ==
  qd_pc = "loop" => (0 <= qd_remaining /\ qd_remaining <= qd_len)

\* an exchange has been issued and neither ended nor been cancelled
Outstanding == \E i \in 1..Len(spi) : ~spi[i].cancelled

\* C24: the ready line is asserted if and only if an exchange is
\* outstanding; it does not stay asserted once an attach_cb that cancelled
\* the exchange has returned.
C24_ReadyIffOutstanding ==
  at_pc = "idle" => ((rdy_n = 0) <=> Outstanding)

\* packets that have been allocated
Allocated == 1..Len(heap)

\* in how many of the fifo, tx_buf and the freed memory packet id is
Holders(id) ==
  (IF InSeq(tx_fifo, id) THEN 1 ELSE 0)
    + (IF tx_buf = id THEN 1 ELSE 0)
    + (IF id \in freed THEN 1 ELSE 0)

\* no context is in the middle of a call and no exchange is outstanding
Quiescent ==
  /\ qd_pc = "idle"
  /\ cb_pc = "idle"
  /\ at_pc = "idle"
  /\ ~Outstanding

\* C25: a packet is in at most one of the fifo, tx_buf and the freed memory
\* (txn_finished_cb between its free and the clearing of tx_buf aside), none
\* is freed twice, and when the fifo is empty with nothing outstanding every
\* packet allocated has been freed.
C25_Ownership ==
  /\ cb_pc # "null" => \A id \in Allocated : Holders(id) <= 1
  /\ ~dfree
  /\ (Quiescent /\ tx_fifo = <<>>) => \A id \in Allocated : id \in freed

\* a step taken while a queue_data of no bytes is under way
InZeroSend == qd_pc = "loop" /\ qd_len = 0

\* C26: a queue_data of 0 bytes allocates and queues no packet and returns 0
\* after calling setup_exchange, which issues an exchange, of the dummy packet
\* when the fifo is empty, if and only if ready is not asserted and wake is.
C26_ZeroLength ==
  [][InZeroSend =>
       /\ Len(heap') = Len(heap)
       /\ enq' = enq
       /\ qd_ids' = <<>>
       /\ qd_pc' = "idle" =>
            /\ qd_ret' = "OK"
            /\ SetupRan
            /\ ExchangeIssued <=> (rdy_n = 1 /\ wake_n = 0)
            /\ ~ExchangeIssued => tx_fifo' = tx_fifo
            /\ (ExchangeIssued /\ tx_fifo = <<>>) =>
                 (Issued.tx = NULL /\ tx_fifo' = <<>>)]_vars

\* a queue_data of 0 bytes has just returned 0 having issued a dummy
\* exchange, no exchange having ended so far
C26_Witness ==
  /\ Returned("OK")
  /\ qd_len = 0
  /\ last_setup = "rxonly"
  /\ nrx = 0
  /\ Len(spi) = 1
  /\ enq = <<>>

====
